---- MODULE Spec2Model ----
(***************************************************************************)
(* Model of the RAPL process energy tracer (src/main.py).                  *)
(*                                                                         *)
(* Time is counted in clock units of 50 ms, so that the loop's             *)
(* time.sleep(0.1) lasts SleepDur = 2 units.  Energies are fixed-point     *)
(* numbers with FracBits fractional bits: the float value * energy_units   *)
(* of the source is an exact product by a power of two, and                *)
(* energy_units = 1 / 2^esu with esu <= 15.  A power value is kept as the  *)
(* exact fraction [n |-> energy_diff, d |-> elapsed].                      *)
(***************************************************************************)
EXTENDS Integers, Sequences, FiniteSets, TLC

VARIABLES
    pc,               \* control position of the program
    err,              \* uncaught exception that ended the run ("" if none)
    interrupted,      \* the "User interruption" message was printed
    pid,              \* self.pid: <<>> is None, <<p>> is the integer p
    duration,         \* argument of trace_energy
    sample_interval,  \* self.sample_interval
    energy_units,     \* self.energy_units (fixed point)
    now,              \* wall clock of the machine
    start_time,       \* start_time
    last_check_time,  \* last_check_time
    current_time,     \* current_time
    elapsed,          \* elapsed
    last_runtime,     \* last_runtime
    initial_info,     \* initial_info
    info,             \* info
    initial_readings, \* initial_readings
    last_readings,    \* last_readings
    current_readings, \* current_readings
    idx,              \* position of the for loop over current_readings.keys()
    total_energy,     \* domain.total_energy, per domain
    intervals,        \* domain.intervals, per domain
    report,           \* what the final summary printed, per domain
    hw,               \* raw value of each hardware energy counter
    hwdoms,           \* domains whose counter the machine exposes
    flaky,            \* exposed domains whose read can fail with IOError
    modulus,          \* 2^width of the hardware energy counters
    incs,             \* increments a counter can make between two reads
    jitter,           \* delays the clock can show between two statements
    proc,             \* the target process as /proc shows it
    ticks,            \* history: one entry per tick taken
    export_csv,       \* self.export_csv
    energy_csv,       \* rows written to the _energy.csv file
    power_csv         \* rows written to the _power.csv file

vars == <<pc, err, interrupted, pid, duration, sample_interval, energy_units,
          now, start_time, last_check_time, current_time, elapsed,
          last_runtime, initial_info, info, initial_readings, last_readings,
          current_readings, idx, total_energy, intervals, report, hw,
          hwdoms, flaky, modulus, incs, jitter, proc, ticks, export_csv,
          energy_csv, power_csv>>

----------------------------------------------------------------------------
(* Bounds of the model *)

MaxDuration == 6        \* longest run, in clock units
MaxInterval == 2        \* longest sample interval, in clock units
MaxJitter == 1          \* clock units that can pass between two statements
CounterModulus == 3     \* modulus of the (narrowed) hardware counters
MaxInc == 1             \* largest counter increment between two reads
NumHwDomains == 2       \* domains the machine exposes, in dictionary order
MaxRuntime == 2         \* largest cumulative runtime of the process
MaxCpu == 1             \* largest logical cpu id

E2EDuration == 100      \* the 5 s run of the end-to-end scenario
E2EInterval == 20       \* its 1 s sample interval
E2EStep == 1000         \* its counter increment between two reads
E2EModulus == 8192      \* a counter width its readings do not overflow

(* Program constants *)

SleepDur == 2           \* time.sleep(0.1), in clock units of 50 ms
FracBits == 15          \* largest shift (units >> 8) & 0xf can give
PowerUnitReg == 658947  \* a POWER_UNIT register value, 0xA0E03 (esu = 14)
MsPerUnit == 50         \* milliseconds in a clock unit (0.1 s / SleepDur)
MinIntervalMs == 1      \* smallest interval main accepts, 0.001 s
Micro == 1000000        \* the six decimals of a formatted cell

----------------------------------------------------------------------------
(* Data *)

DomainOrder == <<"package", "cpu", "uncore", "dram", "psys">>

DomainNames == {DomainOrder[i] : i \in 1..Len(DomainOrder)}

HwDomains == {DomainOrder[i] : i \in 1..NumHwDomains}

PidNone == <<>>

NoneValue == [none |-> TRUE]

RECURSIVE Pow2(_)
Pow2(n) == IF n = 0 THEN 1 ELSE 2 * Pow2(n - 1)

RECURSIVE SumEnergy(_)
SumEnergy(s) == IF s = <<>> THEN 0 ELSE s[1].energy + SumEnergy(Tail(s))

PidTruthy(p) == p # PidNone /\ p[1] # 0

EnergyUnits(units) == Pow2(FracBits) \div Pow2((units \div 256) % 16)

(* read_energy_all_domains: the readings of the domains whose read_msr gave
   a value (the set up), scaled by energy_units *)
ReadEnergyAllDomains(hwv, up) == [d \in up |-> hwv[d] * energy_units]

(* get_process_info: None without a pid or when /proc/<pid> cannot be read *)
GetProcessInfo(p) ==
    IF pid = PidNone THEN NoneValue
    ELSE IF ~p.alive THEN NoneValue
    ELSE [cpu |-> p.cpu, runtime |-> p.runtime]

(* keys of a readings dictionary, in insertion order *)
Keys(r) == SelectSeq(DomainOrder, LAMBDA d : d \in DOMAIN r)

(* line 259 *)
EnergyDiff(cur, last) == cur - last

(* line 256 *)
CommitDecision(runtime_diff) == runtime_diff > 0 \/ pid = PidNone

(* line 210 *)
InitialLastRuntime(ii) == 0

(* a tracer that keeps the previous readings over a skipped tick *)
AdvanceReadingsOnCommit(commit, cur, last) == IF commit THEN cur ELSE last

(* a record stamped with the time since the previous tick *)
RecordTimeSinceLastTick(ct, st) == ct - last_check_time

(* line 271 *)
RecordTime(ct, st) == ct - st

(* a main that lets every interval through *)
IntervalAcceptedAlways(i) == TRUE

(* lines 329-331 *)
IntervalAccepted(i) == ~(i * MsPerUnit < MinIntervalMs)

(* line 280 *)
AdvanceReadings(commit, cur, last) == cur

(* the environment: counters advance between two reads, a process runs,
   migrates and may exit between two snapshots *)
HwNext == {[d \in hwdoms |-> (hw[d] + inc[d]) % modulus] : inc \in [hwdoms -> incs]}

(* the sets of domains one pass of read_msr calls can answer for *)
Readable == {hwdoms \ f : f \in SUBSET flaky}

ProcNext ==
    IF ~proc.alive THEN {proc}
    ELSE {proc} \cup
         {[alive |-> a, runtime |-> r, cpu |-> c] :
            a \in BOOLEAN,
            r \in {proc.runtime, IF proc.runtime < MaxRuntime THEN proc.runtime + 1 ELSE proc.runtime},
            c \in 0..MaxCpu}

----------------------------------------------------------------------------
(* Initial states: the object being constructed, on some machine *)

InitLocals ==
    /\ pc = "main"
    /\ err = ""
    /\ interrupted = FALSE
    /\ energy_units = 0
    /\ now = 0
    /\ start_time = 0
    /\ last_check_time = 0
    /\ current_time = 0
    /\ elapsed = 0
    /\ last_runtime = 0
    /\ initial_info = NoneValue
    /\ info = NoneValue
    /\ initial_readings = <<>>
    /\ last_readings = <<>>
    /\ current_readings = <<>>
    /\ idx = 0
    /\ total_energy = [d \in DomainNames |-> 0]
    /\ intervals = [d \in DomainNames |-> <<>>]
    /\ report = <<>>
    /\ ticks = <<>>
    /\ energy_csv = <<>>
    /\ power_csv = <<>>

Init ==
    /\ InitLocals
    /\ pid \in {PidNone, <<0>>, <<1>>}
    /\ duration = MaxDuration
    /\ sample_interval \in {0} \cup (SleepDur..MaxInterval)
    /\ export_csv \in BOOLEAN
    /\ hwdoms = HwDomains
    /\ flaky = HwDomains
    /\ modulus = CounterModulus
    /\ incs = 1..MaxInc
    /\ jitter = 0..MaxJitter
    /\ hw = [d \in HwDomains |-> CounterModulus - 2]
    /\ proc \in [alive : BOOLEAN, runtime : 0..1, cpu : {0}]
    /\ (pid # <<1>> => proc = [alive |-> FALSE, runtime |-> 0, cpu |-> 0])

----------------------------------------------------------------------------
(* Actions *)

\* main, lines 314-343: the checks of the interval and of the privilege
\* before the tracer is constructed
Main ==
    /\ pc = "main"
    /\ \E root \in BOOLEAN :
         pc' = IF IntervalAccepted(sample_interval) /\ root
               THEN "construct" ELSE "exited"
    /\ UNCHANGED <<err, interrupted, pid, duration, sample_interval,
                   energy_units, now, start_time, last_check_time, current_time,
                   elapsed, last_runtime, initial_info, info, initial_readings,
                   last_readings, current_readings, idx, total_energy,
                   intervals, report, hw, hwdoms, flaky, modulus, incs, jitter,
                   proc, ticks, export_csv, energy_csv, power_csv>>

\* _initialize_rapl, lines 51-57: read_msr(MSR_RAPL_POWER_UNIT) gives the
\* register or None; None >> 8 raises TypeError
InitializeRapl ==
    /\ pc = "construct"
    /\ \E r \in {<<PowerUnitReg>>, <<>>} :    \* <<>> is None
         IF r = <<>>
         THEN /\ pc' = "crashed"
              /\ err' = "TypeError"
              /\ UNCHANGED energy_units
         ELSE /\ pc' = "ready"
              /\ energy_units' = EnergyUnits(r[1])
              /\ UNCHANGED err
    /\ UNCHANGED <<interrupted, pid, duration, sample_interval, now, start_time,
                   last_check_time, current_time, elapsed, last_runtime,
                   initial_info, info, initial_readings, last_readings,
                   current_readings, idx, total_energy, intervals, report, hw,
                   hwdoms, flaky, modulus, incs, jitter,
                   proc, ticks, export_csv, energy_csv, power_csv>>

\* trace_energy, lines 207-231: start of the trace, initial process state
\* and baseline reading
TraceStart ==
    /\ pc = "ready"
    /\ start_time' = now
    /\ last_runtime' = InitialLastRuntime(GetProcessInfo(proc))
    /\ last_check_time' = now
    /\ initial_info' = GetProcessInfo(proc)
    /\ \E h \in HwNext, up \in Readable :
         /\ hw' = h
         /\ initial_readings' = ReadEnergyAllDomains(h, up)
         /\ last_readings' = ReadEnergyAllDomains(h, up)
    /\ pc' = "while"
    /\ UNCHANGED <<err, interrupted, pid, duration, sample_interval,
                   energy_units, now, current_time, elapsed, info,
                   current_readings, idx, total_energy, intervals, report,
                   hwdoms, flaky, modulus, incs, jitter,
                   proc, ticks, export_csv, energy_csv, power_csv>>

\* line 234: while (time.time() - start_time) < duration
WhileCheck ==
    /\ pc = "while"
    /\ \E j \in jitter :
         /\ now' = now + j
         /\ pc' = IF (now + j) - start_time < duration THEN "body" ELSE "summary"
    /\ UNCHANGED <<err, interrupted, pid, duration, sample_interval,
                   energy_units, start_time, last_check_time, current_time,
                   elapsed, last_runtime, initial_info, info, initial_readings,
                   last_readings, current_readings, idx, total_energy,
                   intervals, report, hw, hwdoms, flaky, modulus, incs, jitter,
                   proc, ticks, export_csv, energy_csv, power_csv>>

\* lines 235-238: current_time, elapsed and the test of the interval
LoopBody ==
    /\ pc = "body"
    /\ \E j \in jitter :
         /\ now' = now + j
         /\ current_time' = now + j
         /\ elapsed' = (now + j) - last_check_time
         /\ pc' = IF (now + j) - last_check_time >= sample_interval
                  THEN "sample" ELSE "sleep"
    /\ UNCHANGED <<err, interrupted, pid, duration, sample_interval,
                   energy_units, start_time, last_check_time, last_runtime,
                   initial_info, info, initial_readings, last_readings,
                   current_readings, idx, total_energy, intervals, report, hw,
                   hwdoms, flaky, modulus, incs, jitter,
                   proc, ticks, export_csv, energy_csv, power_csv>>

\* lines 239-256: snapshot of the process, reading of the counters and the
\* gating decision
Sample ==
    /\ pc = "sample"
    /\ \E p \in ProcNext, h \in HwNext, up \in Readable :
         LET inf == GetProcessInfo(p)
             cur == ReadEnergyAllDomains(h, up)
             runtime_diff == IF inf # NoneValue THEN inf.runtime - last_runtime ELSE 0
             commit == CommitDecision(runtime_diff)
         IN /\ proc' = p
            /\ hw' = h
            /\ info' = inf
            /\ current_readings' = cur
            /\ ticks' = Append(ticks, [time |-> current_time, readings |-> cur,
                                       info |-> inf, commit |-> commit])
            /\ idx' = IF commit /\ Keys(cur) # <<>> THEN 1 ELSE 0
            /\ pc' = IF commit /\ Keys(cur) # <<>> THEN "append" ELSE "advance"
    /\ UNCHANGED <<err, interrupted, pid, duration, sample_interval,
                   energy_units, now, start_time, last_check_time, current_time,
                   elapsed, last_runtime, initial_info, initial_readings,
                   last_readings, total_energy, intervals, report, hwdoms,
                   flaky, modulus, incs, jitter, export_csv, energy_csv,
                   power_csv>>

\* lines 258-275, one pass of the for loop up to intervals.append:
\* last_readings[domain_name] raises KeyError for a missing key and
\* energy_diff / elapsed raises ZeroDivisionError for a zero elapsed
CommitAppend ==
    /\ pc = "append"
    /\ LET d == Keys(current_readings)[idx]
       IN IF d \notin DOMAIN last_readings
          THEN /\ pc' = "crashed"
               /\ err' = "KeyError"
               /\ UNCHANGED intervals
          ELSE IF elapsed = 0
          THEN /\ pc' = "crashed"
               /\ err' = "ZeroDivisionError"
               /\ UNCHANGED intervals
          ELSE LET energy_diff == EnergyDiff(current_readings[d], last_readings[d])
               IN /\ intervals' = [intervals EXCEPT ![d] = Append(@,
                        [time |-> RecordTime(current_time, start_time),
                         energy |-> energy_diff,
                         power |-> [n |-> energy_diff, d |-> elapsed],
                         cpu |-> IF PidTruthy(pid) THEN info.cpu ELSE 0])]
                  /\ pc' = "add"
                  /\ UNCHANGED err
    /\ UNCHANGED <<interrupted, pid, duration, sample_interval, energy_units,
                   now, start_time, last_check_time, current_time, elapsed,
                   last_runtime, initial_info, info, initial_readings,
                   last_readings, current_readings, idx, total_energy, report,
                   hw, hwdoms, flaky, modulus, incs, jitter,
                   proc, ticks, export_csv, energy_csv, power_csv>>

\* line 276: total_energy += energy_diff, then the next domain
CommitAdd ==
    /\ pc = "add"
    /\ LET d == Keys(current_readings)[idx]
       IN total_energy' = [total_energy EXCEPT ![d] =
                              @ + EnergyDiff(current_readings[d], last_readings[d])]
    /\ idx' = IF idx < Len(Keys(current_readings)) THEN idx + 1 ELSE 0
    /\ pc' = IF idx < Len(Keys(current_readings)) THEN "append" ELSE "advance"
    /\ UNCHANGED <<err, interrupted, pid, duration, sample_interval,
                   energy_units, now, start_time, last_check_time, current_time,
                   elapsed, last_runtime, initial_info, info, initial_readings,
                   last_readings, current_readings, intervals, report, hw,
                   hwdoms, flaky, modulus, incs, jitter,
                   proc, ticks, export_csv, energy_csv, power_csv>>

\* lines 278-281: info['runtime'] raises TypeError when info is None
Advance ==
    /\ pc = "advance"
    /\ IF PidTruthy(pid) /\ info = NoneValue
       THEN /\ pc' = "crashed"
            /\ err' = "TypeError"
            /\ UNCHANGED <<last_runtime, last_readings, last_check_time>>
       ELSE /\ last_runtime' = IF PidTruthy(pid) THEN info.runtime ELSE last_runtime
            /\ last_readings' = AdvanceReadings(ticks[Len(ticks)].commit,
                                                current_readings, last_readings)
            /\ last_check_time' = current_time
            /\ pc' = "sleep"
            /\ UNCHANGED err
    /\ UNCHANGED <<interrupted, pid, duration, sample_interval, energy_units,
                   now, start_time, current_time, elapsed, initial_info, info,
                   initial_readings, current_readings, idx, total_energy,
                   intervals, report, hw, hwdoms, flaky, modulus, incs, jitter,
                   proc, ticks, export_csv, energy_csv, power_csv>>

\* line 283: time.sleep(0.1)
Sleep ==
    /\ pc = "sleep"
    /\ \E j \in jitter : now' = now + SleepDur + j
    /\ pc' = "while"
    /\ UNCHANGED <<err, interrupted, pid, duration, sample_interval,
                   energy_units, start_time, last_check_time, current_time,
                   elapsed, last_runtime, initial_info, info, initial_readings,
                   last_readings, current_readings, idx, total_energy,
                   intervals, report, hw, hwdoms, flaky, modulus, incs, jitter,
                   proc, ticks, export_csv, energy_csv, power_csv>>

\* lines 234-283: the positions of the sampling loop
LoopPcs == {"while", "body", "sample", "append", "add", "advance", "sleep"}

\* a try statement placed around the body of the tick only
TryBlockAroundTick == {"sample", "append", "add", "advance"}

\* lines 233-286: the positions the try statement encloses
TryBlock == LoopPcs

\* lines 285-286: KeyboardInterrupt raised between two statements of the
\* loop; the except clause leads to the final summary
Interrupt ==
    /\ pc \in LoopPcs
    /\ interrupted' = TRUE
    /\ IF pc \in TryBlock
       THEN /\ pc' = "summary"
            /\ UNCHANGED err
       ELSE /\ pc' = "crashed"
            /\ err' = "KeyboardInterrupt"
    /\ UNCHANGED <<pid, duration, sample_interval, energy_units, now,
                   start_time, last_check_time, current_time, elapsed,
                   last_runtime, initial_info, info, initial_readings,
                   last_readings, current_readings, idx, total_energy,
                   intervals, report, hw, hwdoms, flaky, modulus, incs, jitter,
                   proc, ticks, export_csv, energy_csv, power_csv>>

----------------------------------------------------------------------------
(* export_to_csv, lines 134-179 *)

\* p / q rounded to the nearest integer, ties to even, as the float
\* formatting rounds
RoundDiv(p, q) ==
    LET a == IF p < 0 THEN -p ELSE p
        f == a \div q
        r == a % q
        m == IF 2 * r > q \/ (2 * r = q /\ f % 2 = 1) THEN f + 1 ELSE f
    IN IF p < 0 THEN -m ELSE m

\* line 142, f"{interval['time']:.3f}": the time in milliseconds
TimeKey(t) == t * MsPerUnit

\* lines 156-160, f"{energy:.6f}": the energy in microjoules
FormatEnergy(e) == RoundDiv(e * Micro, Pow2(FracBits))

\* lines 173-177, f"{power:.6f}": the power in microwatts
FormatPower(pw) ==
    IF pw.n = 0 THEN 0
    ELSE RoundDiv(pw.n * Micro * (1000 \div MsPerUnit), Pow2(FracBits) * pw.d)

\* the columns as the header names them
CsvColumnsByHeader == <<"package", "core", "uncore", "dram", "psys">>

\* lines 156-160: the dictionary key read for each column
CsvColumns == <<"package", "cpu", "uncore", "dram", "psys">>

\* lines 140-145: the records of a domain stored under a row key; the last
\* one written stays
RecordsAt(d, key) ==
    {i \in 1..Len(intervals[d]) : TimeKey(intervals[d][i].time) = key}

LastAt(d, key) ==
    intervals[d][CHOOSE i \in RecordsAt(d, key) : \A j \in RecordsAt(d, key) : j <= i]

CsvKeys ==
    UNION {{TimeKey(intervals[d][i].time) : i \in 1..Len(intervals[d])} : d \in DomainNames}

\* cpu_data[t]: written by the last domain of the dictionary that has a
\* record under the key
CpuAt(key) ==
    LET ds == SelectSeq(DomainOrder, LAMBDA d : RecordsAt(d, key) # {})
    IN LastAt(ds[Len(ds)], key).cpu

\* sorted(keys, key=float)
RECURSIVE SortNumeric(_)
SortNumeric(S) ==
    IF S = {} THEN <<>>
    ELSE LET m == CHOOSE x \in S : \A y \in S : x <= y
         IN <<m>> \o SortNumeric(S \ {m})

\* energy_data[t].get(column, 0)
EnergyCell(key, col) ==
    IF col \in DomainNames /\ RecordsAt(col, key) # {}
    THEN FormatEnergy(LastAt(col, key).energy) ELSE 0

\* power_data[t].get(column, 0)
PowerCell(key, col) ==
    IF col \in DomainNames /\ RecordsAt(col, key) # {}
    THEN FormatPower(LastAt(col, key).power) ELSE 0

\* lines 147-162
EnergyRows ==
    LET keys == SortNumeric(CsvKeys)
    IN [r \in 1..Len(keys) |->
          [timestamp |-> keys[r],
           cells |-> [c \in 1..Len(CsvColumns) |-> EnergyCell(keys[r], CsvColumns[c])],
           cpu |-> CpuAt(keys[r])]]

\* lines 164-179
PowerRows ==
    LET keys == SortNumeric(CsvKeys)
    IN [r \in 1..Len(keys) |->
          [timestamp |-> keys[r],
           cells |-> [c \in 1..Len(CsvColumns) |-> PowerCell(keys[r], CsvColumns[c])],
           cpu |-> CpuAt(keys[r])]]

\* lines 288-312: the final summary, one entry per domain with intervals,
\* then the export of the two matrices when export_csv is set
Summary ==
    /\ pc = "summary"
    /\ report' = [d \in {x \in DomainNames : intervals[x] # <<>>} |->
                    [total |-> total_energy[d],
                     powers |-> [i \in 1..Len(intervals[d]) |-> intervals[d][i].power]]]
    /\ energy_csv' = IF export_csv THEN EnergyRows ELSE energy_csv
    /\ power_csv' = IF export_csv THEN PowerRows ELSE power_csv
    /\ pc' = "done"
    /\ UNCHANGED <<err, interrupted, pid, duration, sample_interval,
                   energy_units, now, start_time, last_check_time, current_time,
                   elapsed, last_runtime, initial_info, info, initial_readings,
                   last_readings, current_readings, idx, total_energy,
                   intervals, hw, hwdoms, flaky, modulus, incs, jitter,
                   proc, ticks, export_csv>>

Next ==
    \/ Main
    \/ InitializeRapl
    \/ TraceStart
    \/ WhileCheck
    \/ LoopBody
    \/ Sample
    \/ CommitAppend
    \/ CommitAdd
    \/ Advance
    \/ Sleep
    \/ Interrupt
    \/ Summary

Spec == Init /\ [][Next]_vars

TypeOK ==
    /\ pc \in {"main", "exited", "construct", "ready", "while", "body", "sample", "append", "add",
               "advance", "sleep", "summary", "done", "crashed"}
    /\ err \in {"", "TypeError", "KeyError", "ZeroDivisionError", "KeyboardInterrupt"}
    /\ DOMAIN current_readings \subseteq hwdoms

----------------------------------------------------------------------------
(* The end-to-end scenario: no target process, one domain that always
   answers and whose raw counter reads 1000 at the baseline and 1000 more at
   each later read, a run of 5 s sampled every second *)

InitE2E ==
    /\ InitLocals
    /\ pid = PidNone
    /\ duration = E2EDuration
    /\ sample_interval = E2EInterval
    /\ export_csv = FALSE
    /\ hwdoms = {"package"}
    /\ flaky = {}
    /\ modulus = E2EModulus
    /\ incs = {E2EStep}
    /\ jitter = 0..MaxJitter
    /\ hw = [d \in {"package"} |-> 0]
    /\ proc = [alive |-> FALSE, runtime |-> 0, cpu |-> 0]

SpecE2E == InitE2E /\ [][Next]_vars

----------------------------------------------------------------------------
(* Properties *)

Started == pc \notin {"main", "exited", "construct", "ready"}

\* the tick whose record carries the elapsed time t
TickOf(t) == CHOOSE k \in 1..Len(ticks) : ticks[k].time - start_time = t

\* the readings observed just before tick k
ReadingsBefore(k) == IF k = 1 THEN initial_readings ELSE ticks[k - 1].readings

\* the runtime observed just before tick k
RuntimeBefore(k) == IF k = 1 THEN initial_info.runtime ELSE ticks[k - 1].info.runtime

HasRecordAt(d, t) == \E i \in 1..Len(intervals[d]) : intervals[d][i].time = t

\* the domain whose lookup raised KeyError
KeyErrorDomain == Keys(current_readings)[idx]

\* C1: with a target process configured, once a tick has found the process
\* absent the run does not end in an uncaught error
AbsentProcessEndsInReport ==
    (pid # PidNone /\ \E k \in 1..Len(ticks) : ticks[k].info = NoneValue)
        => pc # "crashed"

\* C2: with a target process configured, a tick commits only if the runtime
\* of the process is strictly greater than at the previous observation (the
\* previous tick, or the snapshot taken at trace start for the first tick)
CommitOnlyIfRuntimeAdvanced ==
    \A k \in 1..Len(ticks) :
        (pid # PidNone /\ ticks[k].commit)
            => /\ ticks[k].info # NoneValue
               /\ ticks[k].info.runtime > RuntimeBefore(k)

\* C3 as claimed: the sum of a domain's committed energy deltas equals its
\* counter change from the baseline to the last committed tick
SkippedEnergyCarriedOver ==
    \A d \in DOMAIN initial_readings :
        intervals[d] # <<>> =>
            LET k == TickOf(intervals[d][Len(intervals[d])].time)
            IN SumEnergy(intervals[d]) = ticks[k].readings[d] - initial_readings[d]

\* C3 as amended: every committed energy delta is the reading of its tick
\* less the reading of the tick just before, committed or skipped (the
\* baseline before the first tick): the change over a skipped tick is in no
\* record
DeltaCoversLastTickOnly ==
    \A d \in DomainNames : \A i \in 1..Len(intervals[d]) :
        LET k == TickOf(intervals[d][i].time)
        IN /\ d \in DOMAIN ReadingsBefore(k)
           /\ intervals[d][i].energy = ticks[k].readings[d] - ReadingsBefore(k)[d]

\* C3 witness: a domain's counter moved over a skipped tick and the next
\* tick committed a record for it
CommitAfterSkippedTick ==
    \E d \in DomainNames : \E k \in 2..Len(ticks) :
        /\ ~ticks[k - 1].commit
        /\ ticks[k].commit
        /\ HasRecordAt(d, ticks[k].time - start_time)
        /\ d \in DOMAIN ticks[k - 1].readings
        /\ d \in DOMAIN ReadingsBefore(k - 1)
        /\ ticks[k - 1].readings[d] # ReadingsBefore(k - 1)[d]

\* C4: outside the two statements of a commit, and in the state left after
\* cancellation, total_energy is the sum of the energy of the records
PrefixSum ==
    pc # "add" => \A d \in DomainNames : total_energy[d] = SumEnergy(intervals[d])

\* C5: total_energy of a domain never decreases
TotalEnergyMonotone ==
    [][\A d \in DomainNames : total_energy'[d] >= total_energy[d]]_vars

\* C6: the delta of a record is the unsigned difference of the two readings
\* over the register width: current - previous, plus the modulus when
\* current < previous
WraparoundDelta ==
    \A d \in DomainNames : \A i \in 1..Len(intervals[d]) :
        LET k == TickOf(intervals[d][i].time)
            cur == ticks[k].readings[d]
            prev == ReadingsBefore(k)[d]
        IN intervals[d][i].energy =
              IF cur < prev THEN cur - prev + modulus * energy_units ELSE cur - prev

\* C7: a domain whose baseline read failed never receives a record and never
\* stops the run
BaselineFailedDomainDropped ==
    Started =>
        \A d \in DomainNames \ DOMAIN initial_readings :
            /\ intervals[d] = <<>>
            /\ ~(err = "KeyError" /\ KeyErrorDomain = d)

\* C8: a read that fails at one tick for a domain that answered the baseline
\* read does not abort the run at a later tick
ReadFailureDoesNotAbort ==
    ~(err = "KeyError" /\ KeyErrorDomain \in DOMAIN initial_readings)

\* C9: without a target process, every tick that was not cancelled has
\* committed a record for every domain that answered its baseline read (and
\* the read of that tick)
UngatedTicksCommit ==
    (pid = PidNone /\ ~interrupted /\ pc \notin {"append", "add"}) =>
        \A k \in 1..Len(ticks) :
            \A d \in DOMAIN initial_readings \cap DOMAIN ticks[k].readings :
                HasRecordAt(d, ticks[k].time - start_time)

\* C10: the end-to-end run, when it ends by its duration, has committed five
\* records, each of raw delta 1000 over 1 s, and a total of five deltas
EndToEndFiveRecords ==
    (pc = "done" /\ ~interrupted) =>
        /\ Len(intervals["package"]) = 5
        /\ \A i \in 1..Len(intervals["package"]) :
              /\ intervals["package"][i].energy = E2EStep * energy_units
              /\ intervals["package"][i].power.d = E2EInterval
        /\ total_energy["package"] = 5 * E2EStep * energy_units

\* C16: after an export, the energy and the power matrix have the same row
\* keys and the same cpu per row, one row per distinct timestamp of any
\* record, in ascending order of the timestamp; a cell is the formatted value
\* of the domain's record at that timestamp, and 0 without such a record
ExportMatrices ==
    (pc = "done" /\ export_csv) =>
        /\ Len(energy_csv) = Len(power_csv)
        /\ Len(energy_csv) = Cardinality(CsvKeys)
        /\ {energy_csv[r].timestamp : r \in 1..Len(energy_csv)} = CsvKeys
        /\ \A r \in 1..Len(energy_csv) :
              /\ energy_csv[r].timestamp = power_csv[r].timestamp
              /\ energy_csv[r].cpu = power_csv[r].cpu
              /\ r > 1 => energy_csv[r - 1].timestamp < energy_csv[r].timestamp
              /\ \A c \in 1..Len(DomainOrder) :
                    LET d == DomainOrder[c]
                        hits == {i \in 1..Len(intervals[d]) :
                                    intervals[d][i].time * MsPerUnit = energy_csv[r].timestamp}
                    IN IF hits = {}
                       THEN energy_csv[r].cells[c] = 0 /\ power_csv[r].cells[c] = 0
                       ELSE \E i \in hits :
                              /\ energy_csv[r].cells[c] = FormatEnergy(intervals[d][i].energy)
                              /\ power_csv[r].cells[c] = FormatPower(intervals[d][i].power)
                              /\ energy_csv[r].cpu = intervals[d][i].cpu

\* C16 witness: an export of two rows in which a domain with a non-zero cell
\* in one row has no record, hence a zero cell, in the other
ExportWithMissingCell ==
    /\ pc = "done"
    /\ export_csv
    /\ Len(energy_csv) = 2
    /\ \E c \in 2..Len(DomainOrder) :
          /\ energy_csv[1].cells[c] # 0
          /\ RecordsAt(DomainOrder[c], energy_csv[2].timestamp) = {}
          /\ energy_csv[2].cells[c] = 0

\* the summary shows every domain that has records, with its total and the
\* power of each of its records, and the export, if any, has all their rows
ReportCoversStore ==
    /\ DOMAIN report = {d \in DomainNames : intervals[d] # <<>>}
    /\ \A d \in DOMAIN report :
          /\ report[d].total = total_energy[d]
          /\ Len(report[d].powers) = Len(intervals[d])
          /\ \A i \in 1..Len(intervals[d]) : report[d].powers[i] = intervals[d][i].power
    /\ export_csv => Len(energy_csv) = Cardinality(CsvKeys)

\* C11: a cancellation during the loop is not an error, discards no record,
\* and leads to the final summary (and export), which nothing can block, of
\* the records committed before it
CancellationEndsInReport ==
    /\ [](interrupted => (pc \in {"summary", "done"} /\ err = ""))
    /\ [][interrupted' => (intervals' = intervals /\ total_energy' = total_energy)]_vars
    /\ []((interrupted /\ pc = "done") => ReportCoversStore)
    /\ []((interrupted /\ pc = "summary") => ENABLED Summary)

\* C11 witness: a cancelled run that has reported and exported its records
CancelledRunReported ==
    /\ interrupted
    /\ pc = "done"
    /\ export_csv
    /\ \E d \in DomainNames : intervals[d] # <<>> /\ d \in DOMAIN report
    /\ Len(energy_csv) >= 1

\* the time of the tick before tick k, the start of the trace for the first
TimeBefore(k) == IF k = 1 THEN start_time ELSE ticks[k - 1].time

\* the constructor succeeded and trace_energy has started
LoopEntered == Started /\ energy_units # 0

RecordsOfTick(d, k) ==
    {i \in 1..Len(intervals[d]) : intervals[d][i].time = ticks[k].time - start_time}

\* C12: the state handed to the summary after a cancellation holds, for each
\* tick, the records of all the domains read at it or of none, and no record
\* without its total_energy increment
CommitAtomicUnderCancellation ==
    (interrupted /\ pc \in {"summary", "done"}) =>
        /\ \A k \in 1..Len(ticks) :
              \/ \A d \in DOMAIN ticks[k].readings : RecordsOfTick(d, k) # {}
              \/ \A d \in DOMAIN ticks[k].readings : RecordsOfTick(d, k) = {}
        /\ \A d \in DomainNames : total_energy[d] = SumEnergy(intervals[d])

\* C13: outside a commit in progress, a tick has left either no record at
\* all, or, if it was not gated, exactly one record for each domain read at
\* it, all with the same cpu
OneRecordPerDomainPerTick ==
    pc \notin {"append", "add"} =>
        \A k \in 1..Len(ticks) :
            \/ \A d \in DomainNames : RecordsOfTick(d, k) = {}
            \/ /\ ticks[k].commit
               /\ \A d \in DOMAIN ticks[k].readings : Cardinality(RecordsOfTick(d, k)) = 1
               /\ \A d \in DomainNames \ DOMAIN ticks[k].readings : RecordsOfTick(d, k) = {}
               /\ \A d, e \in DomainNames :
                     \A i \in RecordsOfTick(d, k), j \in RecordsOfTick(e, k) :
                         intervals[d][i].cpu = intervals[e][j].cpu

\* C14: a run that entered the loop stops in no other state than Finished,
\* with the summary emitted
TerminalStateIsFinished ==
    (LoopEntered /\ ~ENABLED Next) => pc = "done"

\* C15: the intervals of a domain only grow at their end, and their elapsed
\* times never decrease along the list
AppendOnlyOrdered ==
    /\ [][\A d \in DomainNames :
            /\ Len(intervals'[d]) >= Len(intervals[d])
            /\ SubSeq(intervals'[d], 1, Len(intervals[d])) = intervals[d]]_vars
    /\ [](\A d \in DomainNames : \A i, j \in 1..Len(intervals[d]) :
            i < j => intervals[d][i].time <= intervals[d][j].time)

\* C15 witness: a domain with two records
TwoRecords == \E d \in DomainNames : Len(intervals[d]) >= 2

\* C17: an unavailable POWER_UNIT register does not make the constructor
\* raise
ConstructorSurvivesUnavailable == ~(pc = "crashed" /\ energy_units = 0)

\* C18: after a tick, committed or not, the previous readings, the last tick
\* time and the last runtime are those of that tick, and every record covers
\* the window since the tick just before its own, in energy and in time
TickAdvancesState ==
    /\ (pc \in {"sleep", "while", "body", "sample"} /\ ticks # <<>>) =>
          LET last == ticks[Len(ticks)]
          IN /\ last_readings = last.readings
             /\ last_check_time = last.time
             /\ last.info # NoneValue => last_runtime = last.info.runtime
    /\ \A d \in DomainNames : \A i \in 1..Len(intervals[d]) :
          LET k == TickOf(intervals[d][i].time)
          IN /\ intervals[d][i].power.d = ticks[k].time - TimeBefore(k)
             /\ intervals[d][i].power.n = intervals[d][i].energy
             /\ intervals[d][i].energy = ticks[k].readings[d] - ReadingsBefore(k)[d]

\* C18 witness: the loop goes on after a gated tick over which a counter and
\* the runtime reference moved
GatedTickAdvanced ==
    /\ pc = "sleep"
    /\ ticks # <<>>
    /\ ~ticks[Len(ticks)].commit
    /\ last_check_time = ticks[Len(ticks)].time
    /\ \E d \in DOMAIN last_readings :
          /\ d \in DOMAIN ReadingsBefore(Len(ticks))
          /\ last_readings[d] # ReadingsBefore(Len(ticks))[d]

\* C19: a tick is taken only sample_interval or more after the previous one,
\* the interval of a constructed tracer passed the check of main, and the
\* divisor of every committed power is positive: no division by zero
TickElapsedPositive ==
    /\ err # "ZeroDivisionError"
    /\ Started => sample_interval * MsPerUnit >= MinIntervalMs
    /\ \A k \in 1..Len(ticks) : ticks[k].time - TimeBefore(k) >= sample_interval
    /\ \A d \in DomainNames : \A i \in 1..Len(intervals[d]) :
          /\ intervals[d][i].power.d > 0
          /\ intervals[d][i].power.d >= sample_interval

\* C19 witness: a record committed exactly one sample interval after the
\* previous tick
RecordAtInterval ==
    \E d \in DomainNames : \E i \in 1..Len(intervals[d]) :
        intervals[d][i].power.d = sample_interval

====
